---------------------------- MODULE Spec2Model ----------------------------
(***************************************************************************)
(* Model of flowchart_from_image.py: the reconstruction of a flowchart     *)
(* graph from shape and arrow detections.                                  *)
(*                                                                         *)
(* Encodings.                                                              *)
(*  - A point is <<2x, 2y>>: half-pixel units, so that the midpoints       *)
(*    (x1 + x2) / 2 and x1 + width / 2 of integer boxes are exact.         *)
(*    Bounding boxes stay in pixels.                                       *)
(*  - math.hypot(dx, dy) < r is decided on the squares, which is exact     *)
(*    for the non-negative reals the code compares.                        *)
(*  - Python's None is <<>> and a present optional value v is <<v>>.       *)
(*  - A text is a sequence of one-character strings.                       *)
(*  - The Python set final_edges is a duplicate-free sequence, listed in   *)
(*    order of first insertion; CPython lists a set of int tuples in       *)
(*    another order, which is also a function of the insertion history.    *)
(* The Word document (shapes_obj, doc) is write-only for the graph         *)
(* reconstruction and is left out.                                         *)
(***************************************************************************)
EXTENDS Integers, Sequences, FiniteSets, TLC

VARIABLES
    detections,             \* results: the detector's boxes, in detection order
    connection_id_counter,  \* the module-level global counter
    pc,                     \* position in main()
    run,                    \* "first" or "second": the run of main (or the
                            \* build of the pool) in this process
    shape_positions,        \* main's local
    connections_pool,       \* main's local
    arrow_connections,      \* main's local
    ocr_dict,               \* main's local
    final_edges,            \* main's local
    chart_json,             \* the graph document
    matrix_info,            \* the matrix document
    first_docs,             \* the documents written by the first run
    last_call,              \* the last direct find_nearest_connection call
    prev_call,              \* the direct call before the last one
    n_calls,                \* number of direct find_nearest_connection calls
    bfs                     \* collapse_arrow_chains's locals while it runs

vars == <<detections, connection_id_counter, pc, run, shape_positions,
          connections_pool, arrow_connections, ocr_dict, final_edges,
          chart_json, matrix_info, first_docs, last_call, prev_call, n_calls,
          bfs>>

-----------------------------------------------------------------------------
(* Bounds of the model *)

MaxShapes == 3
MaxArrows == 2
MaxCalls == 3

-----------------------------------------------------------------------------
(* Values *)

None == <<>>
Some(v) == <<v>>

Range(s) == {s[i] : i \in 1..Len(s)}

THRESHOLD == 50

Sides == <<"top", "bottom", "left", "right">>

ArrowClasses == {0, 1, 2, 3}

SHAPE_MAP ==
    (4 :> Some(4)) @@ (5 :> None) @@ (6 :> Some(67)) @@ (7 :> Some(1))
    @@ (8 :> Some(2)) @@ (9 :> Some(9))

SHAPE_NAME_MAP ==
    (4 :> Some("Decision")) @@ (5 :> None) @@ (6 :> Some("Output"))
    @@ (7 :> Some("Process")) @@ (8 :> Some("Scan (input)"))
    @@ (9 :> Some("Start/End"))

\* dict.get(key, default)
DictGet(d, key, default) == IF key \in DOMAIN d THEN d[key] ELSE default

\* str(k) for the class ids that are keys of SHAPE_NAME_MAP
StrOfClass ==
    (4 :> "4") @@ (5 :> "5") @@ (6 :> "6") @@ (7 :> "7") @@ (8 :> "8")
    @@ (9 :> "9")

Box(c, x1, y1, x2, y2) == [class_id |-> c, x1 |-> x1, y1 |-> y1, x2 |-> x2, y2 |-> y2]

-----------------------------------------------------------------------------
(* The detections the model draws its inputs from *)

\* Three shapes A, B, C and one detection of a class id the program does not know.
ShapeCatalogue ==
    { Box(7, 0, 0, 100, 60),        \* A: right anchor (100, 30)
      Box(4, 300, 0, 400, 60),      \* B: left anchor (300, 30), top (350, 0)
      Box(9, 60, 200, 160, 260),    \* C: top anchor (110, 200)
      Box(10, 500, 500, 540, 540) } \* unknown class

ArrowCatalogue ==
    { Box(2, 110, 20, 200, 40),     \* A.right -> floating (200, 30)
      Box(2, 200, 20, 290, 40),     \* floating (200, 30) -> B.left
      Box(2, 105, 20, 295, 40),     \* A.right -> B.left
      Box(2, 110, 10, 340, 20),     \* A.right -> B.top
      Box(0, 100, 40, 120, 195),    \* A.right -> C.top
      Box(1, 105, 20, 295, 40),     \* B.left -> A.right
      Box(0, 90, 35, 110, 35) }     \* zero height: tail = tip, at A.right

\* The sequences without repetition of at most n elements of S.
InjSeqs(S, n) ==
    UNION { { s \in [1..k -> S] : \A i, j \in 1..k : i # j => s[i] # s[j] }
            : k \in 0..n }

\* Candidate points of the direct find_nearest_connection calls (half-pixels).
Candidates ==
    { <<220, 60>>,      \* 10 px from A.right
      <<260, 140>>,     \* exactly 50 px from A.right (30, 40)
      <<150, 90>>,      \* the same 29.2 px from A.bottom and A.right
      <<400, 60>>,      \* far from every anchor
      <<420, 60>> }     \* 10 px from <<400, 60>>

-----------------------------------------------------------------------------
(* get_next_connection_id *)

\* Mutant of GetNextConnectionId: the counter is not advanced.
GetNextConnectionIdStuck(counter) == [cid |-> counter, counter |-> counter]

GetNextConnectionId(counter) == [cid |-> counter, counter |-> counter + 1]

-----------------------------------------------------------------------------
(* draw_shapes *)

ShapeRecord(shape_id, box) ==
    LET x1 == box.x1
        y1 == box.y1
        width == box.x2 - box.x1
        height == box.y2 - box.y1
        cx2 == 2 * x1 + width
        cy2 == 2 * y1 + height
    IN [shape_id |-> shape_id, class_id |-> box.class_id,
        x1 |-> x1, y1 |-> y1, width |-> width, height |-> height,
        center |-> <<cx2, cy2>>,
        edge_centers |->
            [side \in Range(Sides) |->
                CASE side = "top" -> <<cx2, 2 * y1>>
                  [] side = "bottom" -> <<cx2, 2 * (y1 + height)>>
                  [] side = "left" -> <<2 * x1, cy2>>
                  [] side = "right" -> <<2 * (x1 + width), cy2>>]]

RECURSIVE DrawShapesFrom(_, _, _)
DrawShapesFrom(results, k, positions) ==
    IF k > Len(results) THEN positions
    ELSE LET box == results[k]
         IN IF /\ box.class_id \notin ArrowClasses
               /\ box.class_id # 5
               /\ DictGet(SHAPE_MAP, box.class_id, None) # None
            THEN DrawShapesFrom(results, k + 1,
                                Append(positions, ShapeRecord(Len(positions), box)))
            ELSE DrawShapesFrom(results, k + 1, positions)

draw_shapes(results) == DrawShapesFrom(results, 1, <<>>)

-----------------------------------------------------------------------------
(* build_connections_pool *)

ShapeNode(cid, shape, side) ==
    [id |-> cid, point |-> shape.edge_centers[side], type |-> "shape",
     shape_id |-> Some(shape.shape_id), side |-> Some(side)]

\* Mutant of BuildPoolFrom: the loop over the sides stops one side early.
RECURSIVE BuildPoolSkipsLastSide(_, _, _, _, _)
BuildPoolSkipsLastSide(positions, s, e, pool, counter) ==
    IF s > Len(positions) THEN [pool |-> pool, counter |-> counter]
    ELSE IF e >= Len(Sides) THEN BuildPoolSkipsLastSide(positions, s + 1, 1, pool, counter)
    ELSE BuildPoolSkipsLastSide(positions, s, e + 1,
                                Append(pool, [id |-> counter,
                                              point |-> positions[s].edge_centers[Sides[e]],
                                              type |-> "shape",
                                              shape_id |-> Some(positions[s].shape_id),
                                              side |-> Some(Sides[e])]),
                                counter + 1)

\* The loop over shapes (s) and over edge_centers.items() (e); the result is
\* the pool and the counter.
RECURSIVE BuildPoolFrom(_, _, _, _, _)
BuildPoolFrom(positions, s, e, pool, counter) ==
    IF s > Len(positions) THEN [pool |-> pool, counter |-> counter]
    ELSE IF e > Len(Sides) THEN BuildPoolFrom(positions, s + 1, 1, pool, counter)
    ELSE LET nxt == GetNextConnectionId(counter)
         IN BuildPoolFrom(positions, s, e + 1,
                          Append(pool, ShapeNode(nxt.cid, positions[s], Sides[e])),
                          nxt.counter)

build_connections_pool(positions, counter) ==
    BuildPoolFrom(positions, 1, 1, <<>>, counter)

-----------------------------------------------------------------------------
(* find_nearest_connection *)

\* The square of math.hypot, in half-pixels squared.
Dist2(p, q) == (p[1] - q[1]) * (p[1] - q[1]) + (p[2] - q[2]) * (p[2] - q[2])

\* The square, in half-pixels squared, of a distance given in pixels.
Sq2(r) == (2 * r) * (2 * r)

\* Mutant of Closer: d <= best_dist.
CloserOrEqual(d2, best2) == d2 <= best2

\* d < best_dist
Closer(d2, best2) == d2 < best2

\* The scan of the pool: best is the index of the best node so far (0: none),
\* best2 the square of best_dist.
RECURSIVE ScanPool(_, _, _, _, _)
ScanPool(candidate, pool, k, best, best2) ==
    IF k > Len(pool) THEN best
    ELSE LET d2 == Dist2(candidate, pool[k].point)
         IN IF Closer(d2, best2)
            THEN ScanPool(candidate, pool, k + 1, k, d2)
            ELSE ScanPool(candidate, pool, k + 1, best, best2)

FloatingNode(cid, candidate) ==
    [id |-> cid, point |-> candidate, type |-> "arrow",
     shape_id |-> None, side |-> None]

\* Mutant of find_nearest_connection: the new node is not appended to the pool.
FindNearestNoAppend(candidate, pool, threshold, counter) ==
    LET best == ScanPool(candidate, pool, 1, 0, Sq2(threshold))
    IN IF best = 0
       THEN LET nxt == GetNextConnectionId(counter)
            IN [node |-> FloatingNode(nxt.cid, candidate), pool |-> pool,
                counter |-> nxt.counter]
       ELSE [node |-> pool[best], pool |-> pool, counter |-> counter]

\* The result: the node returned, the pool and the counter after the call.
find_nearest_connection(candidate, pool, threshold, counter) ==
    LET best == ScanPool(candidate, pool, 1, 0, Sq2(threshold))
    IN IF best = 0
       THEN LET nxt == GetNextConnectionId(counter)
                node == FloatingNode(nxt.cid, candidate)
            IN [node |-> node, pool |-> Append(pool, node), counter |-> nxt.counter]
       ELSE [node |-> pool[best], pool |-> pool, counter |-> counter]

-----------------------------------------------------------------------------
(* process_arrow_detections *)

\* The first loop: the boxes whose class is one of the four arrow classes.
ArrowDetections(results) ==
    SelectSeq(results, LAMBDA box : box.class_id \in ArrowClasses)

\* The candidate end points of one arrow, None for the final else branch.
ArrowCandidates(arrow) ==
    LET midx2 == arrow.x1 + arrow.x2
        midy2 == arrow.y1 + arrow.y2
    IN CASE arrow.class_id = 0 ->
              Some([tail |-> <<midx2, 2 * arrow.y1>>, tip |-> <<midx2, 2 * arrow.y2>>])
         [] arrow.class_id = 3 ->
              Some([tail |-> <<midx2, 2 * arrow.y2>>, tip |-> <<midx2, 2 * arrow.y1>>])
         [] arrow.class_id = 1 ->
              Some([tail |-> <<2 * arrow.x2, midy2>>, tip |-> <<2 * arrow.x1, midy2>>])
         [] arrow.class_id = 2 ->
              Some([tail |-> <<2 * arrow.x1, midy2>>, tip |-> <<2 * arrow.x2, midy2>>])
         [] OTHER -> None

\* One iteration of the second loop; st is [pool, counter, arrows].
ProcessArrow(arrow, st) ==
    LET cand == ArrowCandidates(arrow)
    IN IF cand = None THEN st
       ELSE LET tail == find_nearest_connection(cand[1].tail, st.pool, THRESHOLD,
                                                st.counter)
                tip == find_nearest_connection(cand[1].tip, tail.pool, THRESHOLD,
                                               tail.counter)
            IN [pool |-> tip.pool, counter |-> tip.counter,
                arrows |-> Append(st.arrows,
                    [class_id |-> arrow.class_id,
                     bbox |-> <<arrow.x1, arrow.y1, arrow.x2, arrow.y2>>,
                     tail_candidate |-> cand[1].tail,
                     tip_candidate |-> cand[1].tip,
                     tail |-> tail.node,
                     tip |-> tip.node])]

RECURSIVE ProcessArrowsFrom(_, _, _)
ProcessArrowsFrom(arrows, k, st) ==
    IF k > Len(arrows) THEN st
    ELSE ProcessArrowsFrom(arrows, k + 1, ProcessArrow(arrows[k], st))

process_arrow_detections(results, pool, counter) ==
    ProcessArrowsFrom(ArrowDetections(results), 1,
                      [pool |-> pool, counter |-> counter, arrows |-> <<>>])

-----------------------------------------------------------------------------
(* get_node_by_id *)

get_node_by_id(node_id, pool) ==
    LET hits == {i \in 1..Len(pool) : pool[i].id = node_id}
    IN IF hits = {} THEN None
       ELSE Some(pool[CHOOSE i \in hits : \A j \in hits : i <= j])

-----------------------------------------------------------------------------
(* collapse_arrow_chains *)

\* Mutant of GraphOf: the links are followed tip -> tail.
RECURSIVE GraphOfReversed(_, _, _)
GraphOfReversed(arrows, k, node_id) ==
    IF k > Len(arrows) THEN <<>>
    ELSE (IF arrows[k].tip.id = node_id THEN <<arrows[k].tail.id>> ELSE <<>>)
         \o GraphOfReversed(arrows, k + 1, node_id)

\* graph[node_id]: the tip ids of the arrows whose tail is node_id, in order.
RECURSIVE GraphOf(_, _, _)
GraphOf(arrows, k, node_id) ==
    IF k > Len(arrows) THEN <<>>
    ELSE (IF arrows[k].tail.id = node_id THEN <<arrows[k].tip.id>> ELSE <<>>)
         \o GraphOf(arrows, k + 1, node_id)

\* Mutant of SetAdd: one edge per source shape (a dict keyed by the source).
SetAddOnePerSource(edges, edge) ==
    IF \E e \in Range(edges) : e[1] = edge[1] THEN edges ELSE Append(edges, edge)

\* set.add
SetAdd(edges, edge) == IF edge \in Range(edges) THEN edges ELSE Append(edges, edge)

\* Mutant of Enqueue: only the neighbours of the start node are queued, so a
\* traversal ends after one arrow.
EnqueueFirstHopOnly(queue, neighbors, k, visited) ==
    IF queue = <<>> /\ Cardinality(visited) = 1
    THEN [i \in 1..Len(neighbors) |-> neighbors[i]]
    ELSE queue

\* for neighbor in graph[current_id]: if neighbor not in visited: queue.append
RECURSIVE Enqueue(_, _, _, _)
Enqueue(queue, neighbors, k, visited) ==
    IF k > Len(neighbors) THEN queue
    ELSE Enqueue(IF neighbors[k] \notin visited THEN Append(queue, neighbors[k])
                 ELSE queue,
                 neighbors, k + 1, visited)

\* The edge recorded when the traversal from start reaches current_id.
Reached(edges, current_id, start, pool) ==
    IF current_id # start.id
    THEN LET node == get_node_by_id(current_id, pool)
         IN IF node # None /\ node[1].type = "shape"
            THEN SetAdd(edges, <<start.shape_id[1], node[1].shape_id[1]>>)
            ELSE edges
    ELSE edges

\* Mutant of AlreadyVisited: a popped id is never taken as visited.
NeverVisited(current_id, visited) == FALSE

\* if current_id in visited: continue
AlreadyVisited(current_id, visited) == current_id \in visited

\* while queue: the breadth-first traversal from one shape anchor.
RECURSIVE Traverse(_, _, _, _, _, _)
Traverse(queue, visited, edges, start, pool, arrows) ==
    IF queue = <<>> THEN edges
    ELSE LET current_id == Head(queue)
         IN IF AlreadyVisited(current_id, visited)
            THEN Traverse(Tail(queue), visited, edges, start, pool, arrows)
            ELSE LET seen == visited \cup {current_id}
                 IN Traverse(Enqueue(Tail(queue), GraphOf(arrows, 1, current_id), 1, seen),
                             seen,
                             Reached(edges, current_id, start, pool),
                             start, pool, arrows)

\* for conn in connections_pool
RECURSIVE CollapseFrom(_, _, _, _)
CollapseFrom(pool, arrows, k, edges) ==
    IF k > Len(pool) THEN edges
    ELSE CollapseFrom(pool, arrows, k + 1,
                      IF pool[k].type = "shape"
                      THEN Traverse(<<pool[k].id>>, {}, edges, pool[k], pool, arrows)
                      ELSE edges)

\* Mutant of DropSelfLoops: nothing is dropped.
KeepSelfLoops(edges) == edges

\* [edge for edge in final_edges if edge[0] != edge[1]]
DropSelfLoops(edges) == SelectSeq(edges, LAMBDA edge : edge[1] # edge[2])

collapse_arrow_chains(pool, arrows) ==
    DropSelfLoops(CollapseFrom(pool, arrows, 1, <<>>))

-----------------------------------------------------------------------------
(* add_gpt_ocr_to_shapes *)

Whitespace == {" ", "\t", "\n"}

\* str.strip()
RECURSIVE StripLeft(_)
StripLeft(text) ==
    IF text # <<>> /\ Head(text) \in Whitespace THEN StripLeft(Tail(text)) ELSE text

RECURSIVE StripRight(_)
StripRight(text) ==
    IF text # <<>> /\ text[Len(text)] \in Whitespace
    THEN StripRight(SubSeq(text, 1, Len(text) - 1))
    ELSE text

Strip(text) == StripRight(StripLeft(text))

\* response.choices[0].message.content: what the service reads in the region
\* of the shape (temperature 0: the same text for the same region).
OcrResponse(shape) == <<" ", StrOfClass[shape.class_id], "\n">>

add_gpt_ocr_to_shapes(positions) ==
    [shape_id \in {positions[k].shape_id : k \in 1..Len(positions)} |->
        Strip(OcrResponse(positions[shape_id + 1]))]

-----------------------------------------------------------------------------
(* build_chart_json *)

NodeRecord(node) ==
    [id |-> node.id, point |-> node.point, type |-> node.type,
     shape_id |-> node.shape_id, side |-> node.side]

build_chart_json(positions, edges, arrows, ocr) ==
    [nodes |->
        [k \in 1..Len(positions) |->
            LET shape == positions[k]
            IN [id |-> shape.shape_id,
                class_id |-> shape.class_id,
                name |-> DictGet(SHAPE_NAME_MAP, shape.class_id, None),
                bbox |-> <<shape.x1, shape.y1, shape.width, shape.height>>,
                center |-> shape.center,
                edge_centers |-> shape.edge_centers,
                ocr_text |-> DictGet(ocr, shape.shape_id, <<>>)]],
     edges |-> [k \in 1..Len(edges) |-> [from |-> edges[k][1], to |-> edges[k][2]]],
     SHAPE_MAP |->
        [key \in {StrOfClass[c] : c \in DOMAIN SHAPE_NAME_MAP} |->
            SHAPE_NAME_MAP[CHOOSE c \in DOMAIN SHAPE_NAME_MAP : StrOfClass[c] = key]],
     arrows |->
        [k \in 1..Len(arrows) |->
            [class_id |-> arrows[k].class_id,
             bbox |-> arrows[k].bbox,
             tail_candidate |-> arrows[k].tail_candidate,
             tip_candidate |-> arrows[k].tip_candidate,
             tail |-> NodeRecord(arrows[k].tail),
             tip |-> NodeRecord(arrows[k].tip)]]]

-----------------------------------------------------------------------------
(* build_nxn_matrix *)

\* Mutant of SetCell: matrix[j][i] = 1.
SetCellTransposed(matrix, i, j) == [matrix EXCEPT ![j][i] = 1]

\* matrix[i][j] = 1
SetCell(matrix, i, j) == [matrix EXCEPT ![i][j] = 1]

RECURSIVE FillMatrix(_, _, _)
FillMatrix(matrix, edges, k) ==
    IF k > Len(edges) THEN matrix
    ELSE FillMatrix(SetCell(matrix, edges[k][1], edges[k][2]), edges, k + 1)

\* Rows and columns are indexed from 0, as in the code.
build_nxn_matrix(positions, edges) ==
    LET n == Len(positions)
    IN [matrix |-> FillMatrix([i \in 0..(n - 1) |-> [j \in 0..(n - 1) |-> 0]], edges, 1),
        shapes |->
            [k \in 1..n |->
                LET shape == positions[k]
                IN [id |-> shape.shape_id,
                    class_id |-> shape.class_id,
                    name |-> DictGet(SHAPE_NAME_MAP, shape.class_id, None),
                    bbox |-> <<shape.x1, shape.y1, shape.width, shape.height>>,
                    center |-> shape.center]]]

-----------------------------------------------------------------------------
(* main: one action per step *)

\* The locals of main before it has assigned them.
Locals ==
    /\ shape_positions = <<>>
    /\ connections_pool = <<>>
    /\ arrow_connections = <<>>
    /\ ocr_dict = <<>>
    /\ final_edges = <<>>
    /\ chart_json = None
    /\ matrix_info = None

Init ==
    /\ \E shapes \in InjSeqs(ShapeCatalogue, MaxShapes) :
       \E arrows \in InjSeqs(ArrowCatalogue, MaxArrows) :
           detections = shapes \o arrows
    /\ connection_id_counter = 0
    /\ pc = "start"
    /\ run = "first"
    /\ Locals
    /\ first_docs = None
    /\ last_call = None
    /\ prev_call = None
    /\ n_calls = 0
    /\ bfs = None

\* STEP 1
DrawShapes ==
    /\ pc = "start"
    /\ shape_positions' = draw_shapes(detections)
    /\ pc' = "drawn"
    /\ UNCHANGED <<detections, connection_id_counter, run, connections_pool,
                   arrow_connections, ocr_dict, final_edges, chart_json,
                   matrix_info, first_docs, last_call, prev_call, n_calls, bfs>>

\* STEP 2
BuildConnectionsPool ==
    /\ pc = "drawn"
    /\ LET built == build_connections_pool(shape_positions, connection_id_counter)
       IN /\ connections_pool' = built.pool
          /\ connection_id_counter' = built.counter
    /\ pc' = "pooled"
    /\ UNCHANGED <<detections, run, shape_positions, arrow_connections, ocr_dict,
                   final_edges, chart_json, matrix_info, first_docs, last_call,
                   prev_call, n_calls, bfs>>

\* STEP 3
ProcessArrowDetections ==
    /\ pc = "pooled"
    /\ LET st == process_arrow_detections(detections, connections_pool,
                                          connection_id_counter)
       IN /\ connections_pool' = st.pool
          /\ connection_id_counter' = st.counter
          /\ arrow_connections' = st.arrows
    /\ pc' = "arrows"
    /\ UNCHANGED <<detections, run, shape_positions, ocr_dict, final_edges,
                   chart_json, matrix_info, first_docs, last_call, prev_call, n_calls,
          bfs>>

\* STEP 4, every call of the service answering
AddGptOcrToShapes ==
    /\ pc = "arrows"
    /\ ocr_dict' = add_gpt_ocr_to_shapes(shape_positions)
    /\ pc' = "ocr"
    /\ UNCHANGED <<detections, connection_id_counter, run, shape_positions,
                   connections_pool, arrow_connections, final_edges, chart_json,
                   matrix_info, first_docs, last_call, prev_call, n_calls, bfs>>

\* STEP 4, client.chat.completions.create raising for some shape: nothing in
\* add_gpt_ocr_to_shapes or main catches it, and main ends there.
AddGptOcrRaises ==
    /\ pc = "arrows"
    /\ shape_positions # <<>>
    /\ pc' = "raised"
    /\ UNCHANGED <<detections, connection_id_counter, run, shape_positions,
                   connections_pool, arrow_connections, ocr_dict, final_edges,
                   chart_json, matrix_info, first_docs, last_call, prev_call, n_calls,
          bfs>>

\* STEP 7
CollapseArrowChains ==
    /\ pc = "ocr"
    /\ final_edges' = collapse_arrow_chains(connections_pool, arrow_connections)
    /\ pc' = "collapsed"
    /\ UNCHANGED <<detections, connection_id_counter, run, shape_positions,
                   connections_pool, arrow_connections, ocr_dict, chart_json,
                   matrix_info, first_docs, last_call, prev_call, n_calls, bfs>>

\* STEP 8
BuildChartJson ==
    /\ pc = "collapsed"
    /\ chart_json' = Some(build_chart_json(shape_positions, final_edges,
                                           arrow_connections, ocr_dict))
    /\ pc' = "json"
    /\ UNCHANGED <<detections, connection_id_counter, run, shape_positions,
                   connections_pool, arrow_connections, ocr_dict, final_edges,
                   matrix_info, first_docs, last_call, prev_call, n_calls, bfs>>

\* STEP 9
BuildNxnMatrix ==
    /\ pc = "json"
    /\ matrix_info' = Some(build_nxn_matrix(shape_positions, final_edges))
    /\ pc' = "done"
    /\ UNCHANGED <<detections, connection_id_counter, run, shape_positions,
                   connections_pool, arrow_connections, ocr_dict, final_edges,
                   chart_json, first_docs, last_call, prev_call, n_calls, bfs>>

\* main() called again in the same process on the same detections: the
\* locals are new, the global counter is the one the last run left.
RunAgain ==
    /\ pc = "done"
    /\ run = "first"
    /\ run' = "second"
    /\ first_docs' = Some([chart_json |-> chart_json[1],
                            matrix_info |-> matrix_info[1]])
    /\ pc' = "start"
    /\ shape_positions' = <<>>
    /\ connections_pool' = <<>>
    /\ arrow_connections' = <<>>
    /\ ocr_dict' = <<>>
    /\ final_edges' = <<>>
    /\ chart_json' = None
    /\ matrix_info' = None
    /\ UNCHANGED <<detections, connection_id_counter, last_call, prev_call, n_calls, bfs>>

Next ==
    \/ DrawShapes
    \/ BuildConnectionsPool
    \/ ProcessArrowDetections
    \/ AddGptOcrToShapes
    \/ AddGptOcrRaises
    \/ CollapseArrowChains
    \/ BuildChartJson
    \/ BuildNxnMatrix
    \/ RunAgain

Spec == Init /\ [][Next]_vars

-----------------------------------------------------------------------------
(* The connection pool used directly: build_connections_pool and           *)
(* find_nearest_connection called one at a time on the shapes drawn.       *)

InitPool ==
    /\ detections \in InjSeqs(ShapeCatalogue, MaxShapes)
    /\ connection_id_counter = 0
    /\ pc = "start"
    /\ run = "first"
    /\ Locals
    /\ first_docs = None
    /\ last_call = None
    /\ prev_call = None
    /\ n_calls = 0
    /\ bfs = None

FindNearestConnection ==
    /\ pc = "pooled"
    /\ n_calls < MaxCalls
    /\ \E candidate \in Candidates :
        LET found == find_nearest_connection(candidate, connections_pool, THRESHOLD,
                                             connection_id_counter)
        IN /\ connections_pool' = found.pool
           /\ connection_id_counter' = found.counter
           /\ last_call' = Some([candidate |-> candidate, threshold |-> THRESHOLD,
                                 before |-> connections_pool, after |-> found.pool,
                                 node |-> found.node])
    /\ prev_call' = last_call
    /\ n_calls' = n_calls + 1
    /\ UNCHANGED <<detections, pc, run, shape_positions, arrow_connections,
                   ocr_dict, final_edges, chart_json, matrix_info, first_docs,
                   bfs>>

\* build_connections_pool called again on the same shapes: a new list, and
\* the counter the calls before it left.
BuildConnectionsPoolAgain ==
    /\ pc = "pooled"
    /\ run = "first"
    /\ LET built == build_connections_pool(shape_positions, connection_id_counter)
       IN /\ connections_pool' = built.pool
          /\ connection_id_counter' = built.counter
    /\ run' = "second"
    /\ UNCHANGED <<detections, pc, shape_positions, arrow_connections, ocr_dict,
                   final_edges, chart_json, matrix_info, first_docs, last_call,
                   prev_call, n_calls, bfs>>

NextPool ==
    \/ DrawShapes
    \/ BuildConnectionsPool
    \/ FindNearestConnection
    \/ BuildConnectionsPoolAgain

SpecPool == InitPool /\ [][NextPool]_vars

-----------------------------------------------------------------------------
(* collapse_arrow_chains statement by statement, on the pool and the links *)
(* of a pipeline run and on such a pool with one floating node missing     *)

\* The sequence s without its k-th element.
Without(s, k) == SubSeq(s, 1, k - 1) \o SubSeq(s, k + 1, Len(s))

\* The known shapes in left-to-right order: another order only renames ids.
ShapeRows ==
    { s \in InjSeqs({b \in ShapeCatalogue : b.class_id \in DOMAIN SHAPE_MAP}, MaxShapes) :
        \A i, j \in 1..Len(s) : i < j => s[i].x1 < s[j].x1 }

\* The arguments of the call: what STEPs 1-3 of main return, or that pool
\* with one floating node missing.
InitCollapse ==
    /\ \E shapes \in ShapeRows :
       \E arrows \in InjSeqs(ArrowCatalogue, MaxArrows) :
           detections = shapes \o arrows
    /\ shape_positions = draw_shapes(detections)
    /\ LET built == build_connections_pool(shape_positions, 0)
           linked == process_arrow_detections(detections, built.pool, built.counter)
       IN /\ connection_id_counter = linked.counter
          /\ arrow_connections = linked.arrows
          /\ \/ connections_pool = linked.pool
             \/ \E k \in 1..Len(linked.pool) :
                    /\ linked.pool[k].type = "arrow"
                    /\ connections_pool = Without(linked.pool, k)
    /\ pc = "arrows"
    /\ run = "first"
    /\ ocr_dict = <<>>
    /\ final_edges = <<>>
    /\ chart_json = None
    /\ matrix_info = None
    /\ first_docs = None
    /\ last_call = None
    /\ prev_call = None
    /\ n_calls = 0
    /\ bfs = None

\* graph = defaultdict(list) ...; final_edges = set(); for conn in connections_pool
CollapseEnter ==
    /\ pc = "arrows"
    /\ bfs = None
    /\ bfs' = Some([conn |-> 1, start |-> None, queue |-> <<>>, visited |-> {},
                    order |-> <<>>])
    /\ final_edges' = <<>>
    /\ pc' = "collapsing"
    /\ UNCHANGED <<detections, connection_id_counter, run, shape_positions,
                   connections_pool, arrow_connections, ocr_dict, chart_json,
                   matrix_info, first_docs, last_call, prev_call, n_calls>>

\* for conn in connections_pool: if conn['type'] == 'shape': visited = set();
\* queue = deque([start_id])
CollapseNextConn ==
    /\ pc = "collapsing"
    /\ bfs[1].start = None
    /\ bfs[1].conn <= Len(connections_pool)
    /\ LET conn == connections_pool[bfs[1].conn]
       IN bfs' = IF conn.type = "shape"
                 THEN Some([bfs[1] EXCEPT !.start = Some(conn),
                                          !.queue = <<conn.id>>,
                                          !.visited = {},
                                          !.order = <<>>])
                 ELSE Some([bfs[1] EXCEPT !.conn = @ + 1])
    /\ UNCHANGED <<detections, connection_id_counter, pc, run, shape_positions,
                   connections_pool, arrow_connections, ocr_dict, final_edges,
                   chart_json, matrix_info, first_docs, last_call, prev_call,
                   n_calls>>

\* One turn of while queue: popleft, the visited test, the lookup, the edge
\* and the neighbours.  order lists the ids that passed the visited test.
CollapsePop ==
    /\ pc = "collapsing"
    /\ bfs[1].start # None
    /\ bfs[1].queue # <<>>
    /\ LET current_id == Head(bfs[1].queue)
           start == bfs[1].start[1]
       IN IF AlreadyVisited(current_id, bfs[1].visited)
          THEN /\ bfs' = Some([bfs[1] EXCEPT !.queue = Tail(@)])
               /\ UNCHANGED final_edges
          ELSE LET seen == bfs[1].visited \cup {current_id}
               IN /\ bfs' = Some([bfs[1] EXCEPT
                                    !.queue = Enqueue(Tail(@),
                                                      GraphOf(arrow_connections, 1, current_id),
                                                      1, seen),
                                    !.visited = seen,
                                    !.order = Append(@, current_id)])
                  /\ final_edges' = Reached(final_edges, current_id, start,
                                            connections_pool)
    /\ UNCHANGED <<detections, connection_id_counter, pc, run, shape_positions,
                   connections_pool, arrow_connections, ocr_dict, chart_json,
                   matrix_info, first_docs, last_call, prev_call, n_calls>>

\* while queue is false: on to the next conn
CollapseQueueEmpty ==
    /\ pc = "collapsing"
    /\ bfs[1].start # None
    /\ bfs[1].queue = <<>>
    /\ bfs' = Some([bfs[1] EXCEPT !.start = None, !.conn = @ + 1])
    /\ UNCHANGED <<detections, connection_id_counter, pc, run, shape_positions,
                   connections_pool, arrow_connections, ocr_dict, final_edges,
                   chart_json, matrix_info, first_docs, last_call, prev_call,
                   n_calls>>

\* final_edges = [edge for edge in final_edges if edge[0] != edge[1]]; return
CollapseReturn ==
    /\ pc = "collapsing"
    /\ bfs[1].start = None
    /\ bfs[1].conn > Len(connections_pool)
    /\ final_edges' = DropSelfLoops(final_edges)
    /\ bfs' = None
    /\ pc' = "collapsed"
    /\ UNCHANGED <<detections, connection_id_counter, run, shape_positions,
                   connections_pool, arrow_connections, ocr_dict, chart_json,
                   matrix_info, first_docs, last_call, prev_call, n_calls>>

NextCollapse ==
    \/ CollapseEnter
    \/ CollapseNextConn
    \/ CollapsePop
    \/ CollapseQueueEmpty
    \/ CollapseReturn

\* The function is straight-line sequential code: a statement that can run
\* does run.
SpecCollapse == InitCollapse /\ [][NextCollapse]_vars /\ WF_vars(NextCollapse)

-----------------------------------------------------------------------------
(* Vocabulary of the properties *)

AfterArrows == {"arrows", "ocr", "collapsed", "json", "done", "raised"}
AfterCollapse == {"collapsed", "json", "done"}

Anchors == {node \in Range(connections_pool) : node.type = "shape"}
FloatingIds == {node.id : node \in {n \in Range(connections_pool) : n.type = "arrow"}}
AllIds == {node.id : node \in Range(connections_pool)}

\* The ids one ArrowLink, followed tail -> tip, leads to from an id of ids.
Successors(ids) ==
    {link.tip.id : link \in {a \in Range(arrow_connections) : a.tail.id \in ids}}

\* The ids at the end of a non-empty chain of ArrowLinks that starts at
\* from_id and whose inner nodes are all in through.
RECURSIVE Grow(_, _)
Grow(reached, through) ==
    LET more == reached \cup Successors(reached \cap through)
    IN IF more = reached THEN reached ELSE Grow(more, through)

ChainEnds(from_id, through) == Grow(Successors({from_id}), through)

Edges == Range(final_edges)

Degenerate(b) == b.x1 = b.x2 \/ b.y1 = b.y2

\* The arrow detections that are not detector noise.
CleanArrows ==
    SelectSeq(detections, LAMBDA b : b.class_id \in ArrowClasses /\ ~Degenerate(b))

-----------------------------------------------------------------------------
(* C1 *)

\* C1 (as claimed): a second run of main in the same process, on the same
\* detections, writes the same graph document and the same matrix document
\* as the first run, connection-node ids included.
C1_SameDocumentsOnSecondRun ==
    (run = "second" /\ pc = "done") =>
        /\ chart_json[1] = first_docs[1].chart_json
        /\ matrix_info[1] = first_docs[1].matrix_info

-----------------------------------------------------------------------------
(* C2 *)

SomeWithin(call, d2) == \E k \in 1..Len(call.before) :
                            Dist2(call.candidate, call.before[k].point) < d2
Snapped(call) == call.node \in Range(call.before) /\ call.after = call.before
Created(call) ==
    /\ call.after = Append(call.before, call.node)
    /\ call.node.type = "arrow"
    /\ call.node.shape_id = None
    /\ call.node.side = None
    /\ call.node.point = call.candidate
    /\ \A k \in 1..Len(call.before) : call.before[k].id # call.node.id

\* C2 (as claimed): a node at distance <= threshold makes the call return a
\* node of the pool and add none; every node at distance > threshold makes
\* it append one floating node at the candidate and return it.
C2_SnapWithinThreshold ==
    last_call # None =>
        LET call == last_call[1]
        IN /\ SomeWithin(call, Sq2(call.threshold) + 1) => Snapped(call)
           /\ ~SomeWithin(call, Sq2(call.threshold) + 1) => Created(call)

\* C2 (amended): a node at distance < threshold makes the call return a node
\* of the pool and add none; every node at distance >= threshold makes it
\* append one floating node at the candidate and return it.
C2_SnapStrictlyWithinThreshold ==
    last_call # None =>
        LET call == last_call[1]
        IN /\ SomeWithin(call, Sq2(call.threshold)) => Snapped(call)
           /\ ~SomeWithin(call, Sq2(call.threshold)) => Created(call)

\* Both cases of C2 one after the other: a call that created a floating
\* node although a node lay at exactly the threshold, then a call that
\* snapped to a node of the pool.
C2_Witness ==
    /\ last_call # None /\ prev_call # None
    /\ Created(prev_call[1])
    /\ \E k \in 1..Len(prev_call[1].before) :
          Dist2(prev_call[1].candidate, prev_call[1].before[k].point)
              = Sq2(prev_call[1].threshold)
    /\ SomeWithin(last_call[1], Sq2(last_call[1].threshold))
    /\ Snapped(last_call[1])

-----------------------------------------------------------------------------
(* C3 *)

\* The last two direct calls were made one after the other on the same pool
\* with the same candidate and the same threshold.
Resnap ==
    /\ last_call # None /\ prev_call # None
    /\ last_call[1].candidate = prev_call[1].candidate
    /\ last_call[1].threshold = prev_call[1].threshold
    /\ last_call[1].before = prev_call[1].after

\* C3: resolving the same candidate twice in sequence returns the same node
\* id both times, and the second call adds no node to the pool.
C3_IdempotentResnap ==
    Resnap =>
        /\ last_call[1].node.id = prev_call[1].node.id
        /\ last_call[1].after = last_call[1].before

\* A re-snap whose first call created the floating node.
C3_Witness ==
    /\ Resnap
    /\ Created(prev_call[1])
    /\ prev_call[1].before # <<>>
    /\ last_call[1].node = prev_call[1].node

-----------------------------------------------------------------------------
(* C4 *)

\* The anchors at the end of a chain from a through floating nodes only.
ChainAnchors(a) ==
    LET ends == ChainEnds(a.id, FloatingIds)
    IN {b \in Anchors : b.id \in ends}

\* C4: a chain of ArrowLinks from an anchor of shape A through floating
\* nodes only to an anchor of another shape B yields the final edge (A, B).
C4_TransitiveChainCollapse ==
    pc \in AfterCollapse =>
        \A a \in Anchors :
            \A b \in ChainAnchors(a) :
                a.shape_id # b.shape_id
                    => <<a.shape_id[1], b.shape_id[1]>> \in Edges

\* A chain through a floating node, no single arrow spanning it, collapsed.
C4_Witness ==
    /\ pc = "collapsed"
    /\ \A link \in Range(arrow_connections) :
          ~(link.tail.type = "shape" /\ link.tip.type = "shape")
    /\ \E a \in Anchors : \E b \in ChainAnchors(a) :
        /\ a.shape_id # b.shape_id
        /\ <<a.shape_id[1], b.shape_id[1]>> \in Edges

-----------------------------------------------------------------------------
(* C5 *)

\* The final edges from the shape of s to the shapes of t1 and t2.
FanOut(s, t1, t2) ==
    {k \in 1..Len(final_edges) :
        /\ final_edges[k][1] = s.shape_id[1]
        /\ final_edges[k][2] \in {t1.shape_id[1], t2.shape_id[1]}}

\* The anchors other than s at the end of a non-empty chain from s.
ReachedAnchors(s) ==
    LET ends == ChainEnds(s.id, AllIds)
    IN {t \in Anchors : t.id \in ends /\ t # s}

\* C5 (as claimed): an anchor that reaches two distinct other anchors yields
\* two final edges from its shape, one to the shape of each.
C5_FanOutPerAnchor ==
    pc \in AfterCollapse =>
        \A s \in Anchors :
            \A t1, t2 \in ReachedAnchors(s) :
                t1 # t2 => Cardinality(FanOut(s, t1, t2)) = 2

DistinctShapes(s, t1, t2) ==
    /\ t1.shape_id # t2.shape_id
    /\ t1.shape_id # s.shape_id
    /\ t2.shape_id # s.shape_id

\* C5 (amended): an anchor that reaches anchors of two different shapes,
\* both other than its own, yields two final edges from its shape, one to
\* each of the two shapes.
C5_FanOutPerShape ==
    pc \in AfterCollapse =>
        \A s \in Anchors :
            \A t1, t2 \in ReachedAnchors(s) :
                DistinctShapes(s, t1, t2)
                    => /\ Cardinality(FanOut(s, t1, t2)) = 2
                       /\ <<s.shape_id[1], t1.shape_id[1]>> \in Edges
                       /\ <<s.shape_id[1], t2.shape_id[1]>> \in Edges

C5_Witness ==
    /\ pc = "collapsed"
    /\ \E s \in Anchors :
        \E t1, t2 \in ReachedAnchors(s) :
            /\ DistinctShapes(s, t1, t2)
            /\ Cardinality(FanOut(s, t1, t2)) = 2

-----------------------------------------------------------------------------
(* C6 *)

\* C6: the list collapse_arrow_chains returns holds no pair (from, to) with
\* from = to and no pair twice.
C6_NoSelfLoopNoDuplicate ==
    pc \in AfterCollapse =>
        /\ \A k \in 1..Len(final_edges) : final_edges[k][1] # final_edges[k][2]
        /\ \A i \in 1..Len(final_edges) : \A j \in 1..Len(final_edges) :
              i # j => final_edges[i] # final_edges[j]

\* A mesh with a directed cycle through anchors of two shapes, so that each
\* shape reaches itself, collapsed to the two edges between them.
C6_Witness ==
    /\ pc = "collapsed"
    /\ \E s \in Anchors : \E t \in ReachedAnchors(s) :
          /\ s.shape_id # t.shape_id
          /\ s \in ReachedAnchors(t)
    /\ Len(final_edges) >= 2

-----------------------------------------------------------------------------
(* C7 *)

\* C7: the matrix is N x N over the shape ids 0..N-1, matrix[i][j] = 1
\* exactly when (i, j) is a final edge and 0 otherwise, the k-th shape has
\* id k-1 in shape_positions and in the matrix document, and no final edge
\* has an index outside 0..N-1.
C7_MatrixEdgeEquivalence ==
    pc = "done" =>
        LET n == Len(shape_positions)
            matrix == matrix_info[1].matrix
        IN /\ DOMAIN matrix = 0..(n - 1)
           /\ \A i \in 0..(n - 1) :
                /\ DOMAIN matrix[i] = 0..(n - 1)
                /\ \A j \in 0..(n - 1) :
                      matrix[i][j] = IF <<i, j>> \in Edges THEN 1 ELSE 0
           /\ \A edge \in Edges : edge[1] \in 0..(n - 1) /\ edge[2] \in 0..(n - 1)
           /\ Len(matrix_info[1].shapes) = n
           /\ \A k \in 1..n :
                /\ shape_positions[k].shape_id = k - 1
                /\ matrix_info[1].shapes[k].id = k - 1

\* A matrix with an edge in one direction only, for shapes detected after a
\* detection of an unknown class.
C7_Witness ==
    /\ pc = "done"
    /\ Len(detections) > 0 /\ detections[1].class_id \notin DOMAIN SHAPE_MAP \cup ArrowClasses
    /\ \E i \in DOMAIN matrix_info[1].matrix : \E j \in DOMAIN matrix_info[1].matrix :
          matrix_info[1].matrix[i][j] = 1 /\ matrix_info[1].matrix[j][i] = 0

-----------------------------------------------------------------------------
(* C8 *)

\* C8 (as claimed): an arrow detection of an unrecognised class or with a
\* degenerate box produces no ArrowLink and adds no node to the pool: every
\* link comes from a clean detection, there is one link per clean detection,
\* and the pool holds at most two floating nodes per clean detection.
C8_ArrowNoiseSkipped ==
    pc \in AfterArrows =>
        /\ \A link \in Range(arrow_connections) :
              /\ link.class_id \in ArrowClasses
              /\ link.bbox[1] # link.bbox[3]
              /\ link.bbox[2] # link.bbox[4]
        /\ Len(arrow_connections) = Len(CleanArrows)
        /\ Cardinality(FloatingIds) <= 2 * Len(CleanArrows)

-----------------------------------------------------------------------------
(* C9 *)

\* C9 (as claimed): when the OCR collaborator raises, main still ends with
\* the final edges, the graph document and the matrix document produced.
C9_OcrFailureDoesNotBlock ==
    pc = "raised" => (chart_json # None /\ matrix_info # None)

-----------------------------------------------------------------------------
(* C10 *)

\* Pairwise distinct ids, strictly increasing in order of creation.
IdsIncreasing(pool) ==
    \A i \in 1..Len(pool) : \A j \in 1..Len(pool) : i < j => pool[i].id < pool[j].id

\* A find_nearest_connection call keeps every node of the pool as it was.
PoolKept ==
    (n_calls' = n_calls + 1) =>
        /\ Len(connections_pool') >= Len(connections_pool)
        /\ SubSeq(connections_pool', 1, Len(connections_pool)) = connections_pool

\* A build_connections_pool call gives its nodes ids above every id in use.
IdsFresh ==
    (connections_pool' # connections_pool /\ n_calls' = n_calls) =>
        \A new \in Range(connections_pool') : \A old \in Range(connections_pool) :
            old.id < new.id

\* C10: the nodes of the pool have pairwise distinct ids, assigned in
\* strictly increasing order of creation, and a later call never changes or
\* removes a node of the pool.
C10_NodeIdentity ==
    /\ [](IdsIncreasing(connections_pool))
    /\ [][PoolKept /\ IdsFresh]_vars

\* A pool built a second time, with floating nodes added to it since.
C10_Witness ==
    /\ run = "second"
    /\ \E i \in 1..Len(connections_pool) : \E j \in 1..Len(connections_pool) :
          /\ connections_pool[i].type = "shape"
          /\ connections_pool[j].type = "arrow"
    /\ last_call # None /\ Created(last_call[1]) /\ last_call[1].after = connections_pool

-----------------------------------------------------------------------------
(* C11 *)

\* The positions in the pool of the shape nodes of a shape id.
AnchorsOf(shape_id) ==
    {k \in 1..Len(connections_pool) :
        /\ connections_pool[k].type = "shape"
        /\ connections_pool[k].shape_id = Some(shape_id)}

\* C11: once the pool is built, and after any number of
\* find_nearest_connection calls, every shape of shape_positions owns exactly
\* 4 nodes of type 'shape', one for each of the sides top, bottom, left and
\* right, and every node of type 'shape' belongs to a shape of shape_positions.
C11_AnchorCompleteness ==
    pc = "pooled" =>
        /\ \A s \in 1..Len(shape_positions) :
            LET mine == AnchorsOf(shape_positions[s].shape_id)
            IN /\ Cardinality(mine) = 4
               /\ \A side \in Range(Sides) :
                     Cardinality({k \in mine : connections_pool[k].side = Some(side)}) = 1
        /\ \A k \in 1..Len(connections_pool) :
              connections_pool[k].type = "shape" =>
                  \E s \in 1..Len(shape_positions) :
                      connections_pool[k].shape_id = Some(shape_positions[s].shape_id)

\* Two shapes with their anchors, after a call that added a floating node.
C11_Witness ==
    /\ pc = "pooled"
    /\ Len(shape_positions) >= 2
    /\ last_call # None /\ Created(last_call[1])
    /\ last_call[1].after = connections_pool
    /\ Cardinality(AnchorsOf(1)) = 4

-----------------------------------------------------------------------------
(* C13 *)

\* The node at position k of the pool is the nearest to the candidate, and
\* the first in insertion order among the nearest.
NearestEarliest(call, k) ==
    LET d2 == Dist2(call.candidate, call.before[k].point)
    IN /\ \A j \in 1..Len(call.before) :
             Dist2(call.candidate, call.before[j].point) >= d2
       /\ \A j \in 1..(k - 1) :
             Dist2(call.candidate, call.before[j].point) > d2

\* C13: when find_nearest_connection returns an existing node, that node has
\* the minimum distance to the candidate among all nodes of the pool, and
\* among several nodes at that minimum distance it is the one inserted first.
C13_NearestFirstInserted ==
    (last_call # None /\ Snapped(last_call[1])) =>
        \E k \in 1..Len(last_call[1].before) :
            /\ last_call[1].before[k] = last_call[1].node
            /\ NearestEarliest(last_call[1], k)

\* A call that returned the first of two nodes at the same minimum distance.
C13_Witness ==
    /\ last_call # None /\ Snapped(last_call[1])
    /\ \E k \in 1..Len(last_call[1].before) :
        /\ last_call[1].before[k] = last_call[1].node
        /\ NearestEarliest(last_call[1], k)
        /\ \E j \in (k + 1)..Len(last_call[1].before) :
              Dist2(last_call[1].candidate, last_call[1].before[j].point)
                  = Dist2(last_call[1].candidate, last_call[1].before[k].point)

-----------------------------------------------------------------------------
(* C15 *)

\* Every id an ArrowLink refers to.
LinkIds ==
    UNION {{link.tail.id, link.tip.id} : link \in Range(arrow_connections)}

\* The pairs (A, B) such that an anchor of shape A reaches an anchor of
\* shape B by a non-empty chain of ArrowLinks followed tail -> tip.
PathPairs ==
    UNION { LET ends == ChainEnds(a.id, LinkIds)
            IN {<<a.shape_id[1], b.shape_id[1]>> : b \in {t \in Anchors : t.id \in ends}}
            : a \in Anchors }

\* C15: collapse_arrow_chains returns (A, B) only if A differs from B and
\* some anchor of A reaches some anchor of B by a non-empty chain of
\* ArrowLinks followed tail -> tip.
C15_EdgesWitnessedByMesh ==
    pc \in AfterCollapse =>
        IF Edges = {} THEN TRUE
        ELSE /\ \A edge \in Edges : edge[1] # edge[2]
             /\ Edges \subseteq PathPairs

\* An arrow from A to B and a chain that leaves an anchor and ends at a
\* floating node: the only edge is the one along the arrow.
C15_Witness ==
    /\ pc = "collapsed"
    /\ Len(final_edges) = 1
    /\ <<final_edges[1][2], final_edges[1][1]>> \notin PathPairs
    /\ \E link \in Range(arrow_connections) :
          /\ link.tail.type = "shape"
          /\ link.tip.type = "arrow"
          /\ Successors({link.tip.id}) = {}

-----------------------------------------------------------------------------
(* C14 *)

\* The links hold a directed cycle (an arrow whose tail is its tip included).
Cyclic == \E id \in LinkIds : id \in ChainEnds(id, LinkIds)

\* No id passed the visited test twice in the running traversal.
NoRevisit ==
    bfs # None =>
        \A i, j \in 1..Len(bfs[1].order) : i # j => bfs[1].order[i] # bfs[1].order[j]

\* The statement-by-statement run returns what collapse_arrow_chains returns.
StepwiseAgrees ==
    pc = "collapsed" =>
        final_edges = collapse_arrow_chains(connections_pool, arrow_connections)

\* C14: collapse_arrow_chains returns for every pool and every list of
\* links, cycles and tail = tip links included: no traversal visits an id
\* twice, the queue of every traversal empties, and the function returns.
C14_CollapseTerminates ==
    /\ []NoRevisit
    /\ (bfs # None /\ bfs[1].start # None) ~> (bfs = None \/ bfs[1].queue = <<>>)
    /\ <>(pc = "collapsed")

\* The function has returned on a mesh whose links lead from an anchor back
\* to it through the anchor of another shape, with the edges both ways.
C14_Witness ==
    /\ pc = "collapsed"
    /\ Len(final_edges) >= 2
    /\ \E a \in Anchors : \E b \in Anchors :
          /\ a.shape_id # b.shape_id
          /\ b.id \in ChainEnds(a.id, LinkIds)
          /\ a.id \in ChainEnds(b.id, LinkIds)

-----------------------------------------------------------------------------
(* C12 *)

\* The ids the links refer to that no node of the pool has.
MissingIds == LinkIds \ AllIds

\* The pairs (A, B) such that an anchor of A reaches an anchor of B by a
\* chain of ArrowLinks whose inner nodes are all in the pool.
PathPairsInPool ==
    UNION { LET ends == ChainEnds(a.id, AllIds)
            IN {<<a.shape_id[1], b.shape_id[1]>> : b \in {t \in Anchors : t.id \in ends}}
            : a \in Anchors }

\* C12: an id the pool does not hold is a dead end of the traversal:
\* collapse_arrow_chains returns, and every edge it returns is reached by a
\* chain that passes through no missing id.
C12_LookupFailureIsDeadEnd ==
    (pc = "collapsed" /\ MissingIds # {}) => Edges \subseteq PathPairsInPool

=============================================================================
